---- MODULE Spec2Model ----
(***************************************************************************)
(* A model of @sygnl/talon: the WebSocket transport (connection state      *)
(* machine, reconnect timers, outbound queue), the Webhook transport       *)
(* (per-send retry loop) and the TalonClient event dispatcher.             *)
(*                                                                         *)
(* One instance is modelled per behaviour; `kind` says which class the     *)
(* instance is.  All JavaScript runs on one thread: every action below is  *)
(* one macrotask (a public call, a timer callback, a socket event) run to  *)
(* completion together with the promise reactions (microtasks) it causes.  *)
(***************************************************************************)
EXTENDS Integers, Sequences, FiniteSets, TLC

\* ------------------------------------------------------------------ bounds
MaxSockets  == 2   \* WebSocket objects alive at the same time
MaxMsgs     == 2   \* send() calls made by the caller
MaxAttempts == 2   \* cap on reconnectAttempts (the counter is unbounded in the code)
MaxOrphans  == 1   \* pending reconnect timers whose handle was overwritten
MaxLimit    == 1   \* the maxReconnectAttempts option explored besides 0 (no limit)
MaxRetries  == 2   \* largest maxRetries option explored
MaxWrappers == 1   \* once() calls made on the client
MaxDeliveries == 2 \* inbound messages delivered to the client

\* ------------------------------------------------------- program constants
ReconnectDelay == 1000   \* options.reconnectDelay ?? 1000
RetryDelay     == 1000   \* options.retryDelay ?? 1000

TransportState == {"disconnected", "connecting", "connected", "reconnecting", "error"}

\* Observers that can be registered with a transport.  Observer 2 throws
\* whenever it is invoked, observer 1 returns normally.
Observers == {1, 2}
Throws(h) == h = 2

VARIABLES
  kind,                  \* "ws": WebSocketTransport, "wh": WebhookTransport, "client": TalonClient
  _state,                \* private _state: TransportState
  ws,                    \* this.ws: an index into socks, or 0 for null
  autoReconnect,         \* this.autoReconnect
  maxReconnectAttempts,  \* this.maxReconnectAttempts (0 = infinite)
  reconnectAttempts,     \* this.reconnectAttempts
  reconnectTimeout,      \* this.reconnectTimeout: "null", or a handle whose timer is "pending" or has "fired"
  orphans,               \* pending reconnect timers no longer referenced by this.reconnectTimeout
  messageQueue,          \* this.messageQueue
  messageHandlers,       \* this.messageHandlers, in insertion order
  stateHandlers,         \* this.stateHandlers, in insertion order
  errorHandlers,         \* this.errorHandlers, in insertion order
  socks,                 \* the WebSocket objects not yet CLOSED, oldest first
  ctorThrows,            \* whether `new WebSocket(url)` throws in this environment
  nSent,                 \* send() calls made so far
  retry,                 \* WebhookTransport: this.retry
  maxRetries,            \* WebhookTransport: this.maxRetries
  request,               \* WebhookTransport: the send() call in progress
  hist,                  \* history: facts about the past the claims speak of
  out,                   \* what the last macrotask did: notifications, results
  eventHandlers,         \* TalonClient: this.eventHandlers, event type -> handlers in insertion order
  subscribed,            \* TalonClient: handleMessage is registered with the transport
  nWrappers,             \* TalonClient: once() calls made so far
  nDelivered,            \* TalonClient: inbound messages delivered so far
  invoked,               \* history: how often the handler of the k-th once() call was invoked
  cleared,               \* history: event types off() was called for, with no on()/once() since
  keepsClosures,         \* the caller keeps the closures on() returns after their
                         \* registration is removed
  stale                  \* TalonClient: <<type, fn>> of the closures on() returned that the
                         \* caller keeps and whose registration has since been removed

clientVars == <<eventHandlers, subscribed, nWrappers, nDelivered, invoked, cleared,
               keepsClosures, stale>>

vars == <<kind, _state, ws, autoReconnect, maxReconnectAttempts, reconnectAttempts,
          reconnectTimeout, orphans, messageQueue, messageHandlers, stateHandlers,
          errorHandlers,
          socks, ctorThrows, nSent, retry, maxRetries, request, hist, out,
          eventHandlers, subscribed, nWrappers, nDelivered, invoked, cleared,
          keepsClosures, stale>>

\* The live sockets.  A socket is a record: readyState ("connecting", "open",
\* "closing"), opened (its open event has fired), timeout (the connect timeout
\* of its connect() call is pending), waiter (who holds the still pending
\* promise of that call: "caller", "timer" for the reconnect timer's
\* .catch, "none" once the promise is settled).
Slots == 1..Len(socks)

\* s with its i-th element removed.
Remove(s, i) == [j \in 1..(Len(s) - 1) |-> IF j < i THEN s[j] ELSE s[j + 1]]

\* ----------------------------------------------------------------- helpers

\* Set.forEach(handler => { try { handler(arg) } catch { log } }) when `guarded`,
\* Set.forEach(handler => handler(arg)) otherwise: the calls made, in order, and
\* whether an exception left the loop.
RECURSIVE forEach(_, _, _)
forEach(handlers, arg, guarded) ==
  IF handlers = <<>> THEN [calls |-> <<>>, thrown |-> FALSE]
  ELSE LET h == Head(handlers)
           call == <<[handler |-> h, arg |-> arg]>>
       IN IF Throws(h) /\ ~guarded
            THEN [calls |-> call, thrown |-> TRUE]
            ELSE LET rest == forEach(Tail(handlers), arg, guarded)
                 IN [calls |-> call \o rest.calls, thrown |-> rest.thrown]

\* Set.add: a handler already in the set keeps its place.
SetAdd(handlers, h) ==
  IF \E i \in 1..Len(handlers) : handlers[i] = h THEN handlers ELSE Append(handlers, h)

\* JSON.stringify(message): throws on a value JSON cannot encode (a cycle, a
\* BigInt), otherwise yields the text frame carrying the message.
JSONstringify(message) ==
  IF message.encodable THEN [ok |-> TRUE, text |-> <<"json", message.id>>]
  ELSE [ok |-> FALSE, text |-> <<>>]

\* The transport's fields as one record, so that the private methods below are
\* functions from record to record.
Cur ==
  [state |-> _state, ws |-> ws, autoReconnect |-> autoReconnect,
   reconnectAttempts |-> reconnectAttempts, reconnectTimeout |-> reconnectTimeout,
   orphans |-> orphans, messageQueue |-> messageQueue, socks |-> socks,
   hist |-> hist,
   notes |-> <<>>, errors |-> <<>>, sched |-> <<>>, settled |-> <<>>,
   written |-> <<>>, raised |-> <<>>, discarded |-> <<>>,
   delivered |-> <<>>, frame |-> "",
   escaped |-> FALSE, result |-> "none"]

\* ------------------------------------------- WebSocketTransport, private part

\* setState without the try/catch around each handler call.
setState_uncaught(t, state) ==
  IF t.state = state THEN t
  ELSE LET r == forEach(stateHandlers, state, FALSE)
       IN [t EXCEPT !.state = state, !.notes = @ \o r.calls,
                    !.escaped = @ \/ r.thrown]

\* setState(state): no-op on the current state, otherwise every state handler
\* is called with the new state, each inside its own try/catch.
setState(t, state) ==
  IF t.state = state THEN t
  ELSE LET r == forEach(stateHandlers, state, TRUE)
       IN [t EXCEPT !.state = state, !.notes = @ \o r.calls,
                    !.escaped = @ \/ r.thrown]

\* emitError(error): every error handler is called, each inside its own try/catch.
emitError(t, error) ==
  LET r == forEach(errorHandlers, error, TRUE)
  IN [t EXCEPT !.errors = @ \o r.calls, !.escaped = @ \/ r.thrown]

\* scheduleReconnect(): delay = reconnectDelay * 2^reconnectAttempts, and the new
\* timer's handle overwrites this.reconnectTimeout; a timer the old handle named
\* stays pending.
scheduleReconnect(t) ==
  [t EXCEPT !.orphans = IF t.reconnectTimeout = "pending" THEN @ + 1 ELSE @,
            !.reconnectTimeout = "pending",
            !.sched = Append(@, [delay |-> ReconnectDelay * 2^(t.reconnectAttempts),
                                 after |-> t.hist.autoAttempts])]

\* handleDisconnect()
handleDisconnect(t) ==
  LET t1 == [t EXCEPT !.ws = 0]
  IN IF t1.autoReconnect
        /\ (maxReconnectAttempts = 0 \/ t1.reconnectAttempts < maxReconnectAttempts)
       THEN scheduleReconnect(setState(t1, "reconnecting"))
       ELSE setState(t1, "disconnected")

\* WebSocket.send(payload) on socket s: throws InvalidStateError while the socket
\* is CONNECTING, transmits while it is OPEN, and silently discards the data once
\* it is CLOSING or CLOSED.  written / raised / discarded list what this
\* macrotask wrote, failed to write and lost.
SocketSend(t, s, message, text) ==
  CASE t.socks[s].readyState = "connecting" ->
         [t EXCEPT !.result = "threw"]
    [] t.socks[s].readyState = "open" ->
         [t EXCEPT !.written = Append(@, text), !.result = "resolved"]
    [] OTHER ->
         [t EXCEPT !.discarded = Append(@, text), !.result = "resolved"]

\* send that writes whenever a socket exists, whatever the state.
send_anyState(t, message) ==
  IF t.ws = 0
    THEN [t EXCEPT !.messageQueue = Append(@, message), !.result = "resolved"]
    ELSE LET json == JSONstringify(message)
             w == IF json.ok THEN SocketSend(t, t.ws, message, json.text)
                  ELSE [t EXCEPT !.result = "threw"]
         IN IF w.result = "threw"
              THEN [emitError(w, "send") EXCEPT !.raised = Append(@, message.id),
                                                !.result = "rejected"]
              ELSE w

\* send(message): queue unless connected with a socket; otherwise serialize and
\* write, and on an exception emit it to the error handlers and rethrow.
send(t, message) ==
  IF t.state # "connected" \/ t.ws = 0
    THEN [t EXCEPT !.messageQueue = Append(@, message), !.result = "resolved"]
    ELSE LET json == JSONstringify(message)
             w == IF json.ok THEN SocketSend(t, t.ws, message, json.text)
                  ELSE [t EXCEPT !.result = "threw"]
         IN IF w.result = "threw"
              THEN [emitError(w, "send") EXCEPT !.raised = Append(@, message.id),
                                                !.result = "rejected"]
              ELSE w

\* queue.forEach(message => this.send(message).catch(log))
RECURSIVE sendAll(_, _)
sendAll(t, queue) ==
  IF queue = <<>> THEN t
  ELSE sendAll([send(t, Head(queue)) EXCEPT !.result = "none"], Tail(queue))

\* flushMessageQueue(): take a snapshot, empty the queue, send every entry of
\* the snapshot.
flushMessageQueue(t) ==
  IF Len(t.messageQueue) = 0 THEN t
  ELSE sendAll([t EXCEPT !.messageQueue = <<>>], t.messageQueue)

\* connect without the early return for `connected` and `connecting`.
connect_always(t, origin) ==
  LET t1 == setState(t, "connecting")
  IN IF ctorThrows
       THEN [emitError(setState(t1, "error"), "ctor") EXCEPT !.result = "rejected"]
       ELSE [t1 EXCEPT !.ws = Len(t1.socks) + 1,
                       !.socks = Append(@, [readyState |-> "connecting",
                                            opened |-> FALSE, timeout |-> TRUE,
                                            waiter |-> origin]),
                       !.result = "pending"]

\* connect(), called by `origin` ("caller", or "timer" for the reconnect timer's
\* callback).  result: "resolved" for the no-op, "pending" once a socket is being
\* opened, "rejected" when the WebSocket constructor threw.
connect(t, origin) ==
  IF t.state = "connected" \/ t.state = "connecting"
    THEN [t EXCEPT !.result = "resolved"]
    ELSE LET t1 == setState(t, "connecting")
         IN IF ctorThrows
              THEN [emitError(setState(t1, "error"), "ctor") EXCEPT !.result = "rejected"]
              ELSE [t1 EXCEPT !.ws = Len(t1.socks) + 1,
                              !.socks = Append(@, [readyState |-> "connecting",
                                                   opened |-> FALSE, timeout |-> TRUE,
                                                   waiter |-> origin]),
                              !.result = "pending"]

\* WebSocket.close() on socket s (0: `this.ws?.close()` on null does nothing).
SocketClose(t, s) ==
  IF s # 0 /\ t.socks[s].readyState \in {"connecting", "open"}
    THEN [t EXCEPT !.socks[s].readyState = "closing"]
    ELSE t

\* resolve() / reject(error) of the promise of socket s's connect() call.  A
\* promise already settled ignores both.  The rejection of the reconnect timer's
\* call runs .catch(() => this.handleDisconnect()) as a microtask: Caught.
Caught(t, s) == t.socks[s].waiter = "timer"
settle(t, s, how) ==
  IF t.socks[s].waiter = "none" THEN t
  ELSE [t EXCEPT !.socks[s].waiter = "none",
                 !.settled = Append(@, [waiter |-> t.socks[s].waiter, how |-> how])]

\* ws.onopen
onopen(t, s) ==
  LET t1 == setState([t EXCEPT !.socks[s].timeout = FALSE], "connected")
      t2 == flushMessageQueue([t1 EXCEPT !.reconnectAttempts = 0,
                                         !.hist.autoAttempts = 0])
  IN settle(t2, s, "resolved")

\* ws.onerror, followed by the microtask its reject() releases.
onerror(t, s) ==
  LET t1 == settle(emitError([t EXCEPT !.socks[s].timeout = FALSE], "connection"),
                   s, "rejected")
  IN IF Caught(t, s) THEN handleDisconnect(t1) ELSE t1

\* ws.onclose
onclose(t, s) == handleDisconnect([t EXCEPT !.socks[s].timeout = FALSE])

\* The connect-timeout callback of socket s's connect() call:
\* reject(new Error('Connection timeout')); this.ws?.close(), followed by the
\* microtask the reject() releases.
connectionTimeout(t, s) ==
  LET t1 == SocketClose(settle([t EXCEPT !.socks[s].timeout = FALSE], s, "rejected"),
                        t.ws)
  IN IF Caught(t, s) THEN handleDisconnect(t1) ELSE t1

\* The reconnect timer's callback:
\* this.reconnectAttempts++; this.connect().catch(() => this.handleDisconnect())
reconnectTimer(t) ==
  LET starts == t.state # "connected" /\ t.state # "connecting"
      t1 == connect([t EXCEPT !.reconnectAttempts = @ + 1,
                              !.hist.autoAttempts = IF starts THEN @ + 1 ELSE @],
                    "timer")
  IN IF t1.result = "rejected" THEN handleDisconnect(t1) ELSE t1

\* disconnect that leaves this.autoReconnect as it is.
disconnect_keepsAuto(t) ==
  LET t1 == [t EXCEPT !.reconnectTimeout = "null"]
      t2 == IF t1.ws # 0 THEN [SocketClose(t1, t1.ws) EXCEPT !.ws = 0] ELSE t1
  IN setState(t2, "disconnected")

\* disconnect()
disconnect(t) ==
  LET t1 == [t EXCEPT !.autoReconnect = FALSE, !.reconnectTimeout = "null"]
      t2 == IF t1.ws # 0 THEN [SocketClose(t1, t1.ws) EXCEPT !.ws = 0] ELSE t1
  IN setState(t2, "disconnected")

\* JSON.parse(data): throws on text that is not JSON, otherwise yields the
\* value the text denotes, whatever its shape.
JSONparse(data) ==
  IF data = "not JSON" THEN [ok |-> FALSE, value |-> ""]
  ELSE [ok |-> TRUE, value |-> data]

\* WebSocketTransport.handleMessage(data): the parsed value is passed to every
\* message handler, each inside its own try/catch; a parse failure is emitted
\* as 'Invalid message format'.
wsHandleMessage(t, data) ==
  LET json == JSONparse(data)
      t1 == [t EXCEPT !.frame = data]
  IN IF json.ok
       THEN LET r == forEach(messageHandlers, json.value, TRUE)
            IN [t1 EXCEPT !.delivered = @ \o r.calls, !.escaped = @ \/ r.thrown]
       ELSE emitError(t1, "parse")

\* ------------------------------------------------------------------ actions

NoOut == [op |-> "init", arg |-> 0, notes |-> <<>>, errors |-> <<>>, sched |-> <<>>,
          settled |-> <<>>, written |-> <<>>, raised |-> <<>>, discarded |-> <<>>,
          delivered |-> <<>>, frame |-> "",
          escaped |-> FALSE, result |-> "none"]

\* The fields of record r become the next state; op and arg name the macrotask.
Commit(op, arg, result) ==
  \E r \in {result} :
  /\ r.orphans <= MaxOrphans
  /\ Len(r.socks) <= MaxSockets
  /\ _state' = r.state
  /\ ws' = r.ws
  /\ autoReconnect' = r.autoReconnect
  /\ reconnectAttempts' = r.reconnectAttempts
  /\ reconnectTimeout' = r.reconnectTimeout
  /\ orphans' = r.orphans
  /\ messageQueue' = r.messageQueue
  /\ socks' = r.socks
  /\ hist' = r.hist
  /\ out' = [op |-> op, arg |-> arg, notes |-> r.notes, errors |-> r.errors,
             sched |-> r.sched, settled |-> r.settled, written |-> r.written,
             raised |-> r.raised, discarded |-> r.discarded,
             delivered |-> r.delivered, frame |-> r.frame, escaped |-> r.escaped,
             result |-> r.result]
  /\ UNCHANGED <<kind, maxReconnectAttempts, messageHandlers, stateHandlers, errorHandlers,
                 ctorThrows,
                 retry, maxRetries, request>>
  /\ UNCHANGED clientVars

\* The caller calls transport.connect().
WsConnect ==
  /\ kind = "ws"
  /\ Commit("connect", 0, connect([Cur EXCEPT !.hist.userDisc = FALSE], "caller"))
  /\ UNCHANGED nSent

\* The caller calls transport.disconnect().
WsDisconnect ==
  /\ kind = "ws"
  /\ Commit("disconnect", 0, disconnect([Cur EXCEPT !.hist.userDisc = TRUE,
                                                      !.hist.everDisc = TRUE]))
  /\ UNCHANGED nSent

\* The caller calls transport.send(message) with a fresh message.
WsSend(encodable) ==
  /\ kind = "ws"
  /\ nSent < MaxMsgs
  /\ nSent' = nSent + 1
  /\ Commit("send", nSent + 1, send(Cur, [id |-> nSent + 1, encodable |-> encodable]))

\* A pending reconnect timer fires: the one this.reconnectTimeout names, or one
\* whose handle was overwritten.
ReconnectTimerFires(named) ==
  /\ kind = "ws"
  /\ IF named THEN reconnectTimeout = "pending" ELSE orphans > 0
  /\ reconnectAttempts < MaxAttempts
  /\ Commit("reconnectTimer", 0,
            reconnectTimer(IF named THEN [Cur EXCEPT !.reconnectTimeout = "fired"]
                                    ELSE [Cur EXCEPT !.orphans = @ - 1]))
  /\ UNCHANGED nSent

\* The connect timeout of socket s's connect() call fires.
ConnectionTimeoutFires(s) ==
  /\ kind = "ws"
  /\ socks[s].timeout
  /\ Commit("connectionTimeout", 0, connectionTimeout(Cur, s))
  /\ UNCHANGED nSent

\* The handshake of socket s completes: its open event fires.
SocketOpens(s) ==
  /\ kind = "ws"
  /\ socks[s].readyState = "connecting"
  /\ Commit("open", 0,
            onopen([Cur EXCEPT !.socks[s].readyState = "open", !.socks[s].opened = TRUE], s))
  /\ UNCHANGED nSent

\* The connection of socket s ends: readyState becomes CLOSED, the error event
\* fires if the connection failed (always so for a socket that never opened),
\* then the close event fires.  The closed socket receives no further event.
SocketCloses(s, failed) ==
  /\ kind = "ws"
  /\ socks[s].readyState \in {"connecting", "open", "closing"}
  /\ ~socks[s].opened => failed
  /\ LET t0 == [Cur EXCEPT !.socks[s].readyState = "closed"]
         t1 == IF failed THEN onerror(t0, s) ELSE t0
         t2 == onclose(t1, s)
     IN Commit("close", 0, [t2 EXCEPT !.socks = Remove(@, s)])
  /\ UNCHANGED nSent

\* A socket that never opened is closed by a runtime that reports no error for
\* it: the close event fires with no error event before it.  The socket is
\* kept, closed, while the promise of its connect() call is unsettled.
SocketDrops(s) ==
  /\ kind = "ws"
  /\ socks[s].readyState \in {"connecting", "closing"}
  /\ ~socks[s].opened
  /\ LET t1 == onclose([Cur EXCEPT !.socks[s].readyState = "closed"], s)
     IN Commit("closeNoError", 0,
               IF t1.socks[s].waiter = "none" THEN [t1 EXCEPT !.socks = Remove(@, s)]
               ELSE t1)
  /\ UNCHANGED nSent

\* The text frames the edge may send: text that is not JSON, JSON text that
\* is no envelope (a number, an object without `type`), and an envelope.
InboundFrames == {"not JSON", "JSON, no envelope", "envelope"}

\* A text frame arrives on the open socket s: ws.onmessage.
FrameArrives(s, data) ==
  /\ kind = "ws"
  /\ socks[s].readyState = "open"
  /\ Commit("message", 0, wsHandleMessage(Cur, data))
  /\ UNCHANGED nSent

\* ---------------------------------------------------------- WebhookTransport

\* The Webhook transport's fields as one record.
WhCur ==
  [state |-> _state, request |-> request,
   notes |-> <<>>, errors |-> <<>>, sched |-> <<>>, settled |-> <<>>,
   written |-> <<>>, raised |-> <<>>, discarded |-> <<>>,
   delivered |-> <<>>, frame |-> "",
   escaped |-> FALSE, result |-> "none"]

\* WebhookTransport.setState(state)
whSetState(t, state) ==
  IF t.state = state THEN t
  ELSE LET r == forEach(stateHandlers, state, TRUE)
       IN [t EXCEPT !.state = state, !.notes = @ \o r.calls,
                    !.escaped = @ \/ r.thrown]

\* WebhookTransport.emitError(error)
whEmitError(t, error) ==
  LET r == forEach(errorHandlers, error, TRUE)
  IN [t EXCEPT !.errors = @ \o r.calls, !.escaped = @ \/ r.thrown]

\* The catch block emitting the error of every failed attempt.
whAttemptFailed_everyAttempt(t, error) ==
  IF t.request.attempt < t.request.attempts - 1
    THEN [whEmitError(t, error) EXCEPT
            !.request.pc = "backoff",
            !.sched = Append(@, [delay |-> RetryDelay * 2^(t.request.attempt),
                                 after |-> t.request.attempt])]
    ELSE [whEmitError(t, error) EXCEPT !.request.pc = "idle", !.result = "rejected"]

\* The catch block of send()'s loop after attempt number request.attempt failed:
\* back off delay = retryDelay * 2^attempt when attempts remain, otherwise leave
\* the loop, emit the last error and throw it.
whAttemptFailed(t, error) ==
  IF t.request.attempt < t.request.attempts - 1
    THEN [t EXCEPT !.request.pc = "backoff",
                   !.sched = Append(@, [delay |-> RetryDelay * 2^(t.request.attempt),
                                        after |-> t.request.attempt])]
    ELSE [whEmitError(t, error) EXCEPT !.request.pc = "idle", !.result = "rejected"]

\* sendRequest(message) up to its await: the body is serialized, which may
\* throw before fetch is called; otherwise fetch is called and awaited.
whSendRequest(t) ==
  IF JSONstringify(t.request.message).ok
    THEN [t EXCEPT !.request.pc = "fetch", !.request.requests = @ + 1]
    ELSE whAttemptFailed(t, "stringify")

\* send whose loop runs maxRetries times when retry is on.
whSend_noFirstAttempt(t, message) ==
  IF t.state # "connected" THEN [t EXCEPT !.result = "rejected"]
  ELSE whSendRequest([t EXCEPT !.request =
         [pc |-> "loop", message |-> message, attempt |-> 0, requests |-> 0,
          attempts |-> IF retry THEN maxRetries ELSE 1]])

\* send(message) up to its first await.
whSend(t, message) ==
  IF t.state # "connected" THEN [t EXCEPT !.result = "rejected"]
  ELSE whSendRequest([t EXCEPT !.request =
         [pc |-> "loop", message |-> message, attempt |-> 0, requests |-> 0,
          attempts |-> IF retry THEN maxRetries + 1 ELSE 1]])

\* fetch settles: with a response whose status is 2xx ("ok") or not ("status"),
\* with the abort of the request timeout ("timeout"), or with a network error.
whFetchSettles(t, outcome) ==
  IF outcome = "ok" THEN [t EXCEPT !.request.pc = "idle", !.result = "resolved"]
  ELSE whAttemptFailed(t, outcome)

\* The backoff delay elapsed: the loop goes on with the next attempt.
whNextAttempt(t) == whSendRequest([t EXCEPT !.request.attempt = @ + 1])

WhCommit(op, arg, result) ==
  \E r \in {result} :
  /\ _state' = r.state
  /\ request' = r.request
  /\ out' = [op |-> op, arg |-> arg, notes |-> r.notes, errors |-> r.errors,
             sched |-> r.sched, settled |-> r.settled, written |-> r.written,
             raised |-> r.raised, discarded |-> r.discarded,
             delivered |-> r.delivered, frame |-> r.frame, escaped |-> r.escaped,
             result |-> r.result]
  /\ UNCHANGED <<kind, ws, autoReconnect, maxReconnectAttempts, reconnectAttempts,
                 reconnectTimeout, orphans, messageQueue, messageHandlers, stateHandlers,
          errorHandlers,
                 socks, ctorThrows, nSent, retry, maxRetries, hist>>
  /\ UNCHANGED clientVars

\* connect(): the transport is "connected" at once.
WhConnect ==
  /\ kind = "wh"
  /\ WhCommit("connect", "", [whSetState(WhCur, "connected") EXCEPT !.result = "resolved"])

\* disconnect()
WhDisconnect ==
  /\ kind = "wh"
  /\ WhCommit("disconnect", "", whSetState(WhCur, "disconnected"))

\* The caller calls send(message); one call is in progress at a time.
WhSend(encodable) ==
  /\ kind = "wh"
  /\ request.pc = "idle"
  /\ WhCommit("send", "", whSend(WhCur, [id |-> 1, encodable |-> encodable]))

WhFetchSettles(outcome) ==
  /\ kind = "wh"
  /\ request.pc = "fetch"
  /\ WhCommit("fetchSettles", outcome, whFetchSettles(WhCur, outcome))

WhBackoffElapsed ==
  /\ kind = "wh"
  /\ request.pc = "backoff"
  /\ WhCommit("backoffElapsed", "", whNextAttempt(WhCur))

\* onStateChange(handler)
OnStateChange(h) ==
  /\ kind = "wh"
  /\ stateHandlers' = SetAdd(stateHandlers, h)
  /\ stateHandlers' # stateHandlers
  /\ out' = [NoOut EXCEPT !.op = "onStateChange", !.arg = ""]
  /\ UNCHANGED <<kind, _state, ws, autoReconnect, maxReconnectAttempts, reconnectAttempts,
                 reconnectTimeout, orphans, messageQueue, messageHandlers, errorHandlers,
                 socks, ctorThrows,
                 nSent, retry, maxRetries, request, hist>>
  /\ UNCHANGED clientVars

\* onError(handler)
OnError(h) ==
  /\ kind = "wh"
  /\ errorHandlers' = SetAdd(errorHandlers, h)
  /\ errorHandlers' # errorHandlers
  /\ out' = [NoOut EXCEPT !.op = "onError", !.arg = ""]
  /\ UNCHANGED <<kind, _state, ws, autoReconnect, maxReconnectAttempts, reconnectAttempts,
                 reconnectTimeout, orphans, messageQueue, messageHandlers, stateHandlers,
                 socks, ctorThrows,
                 nSent, retry, maxRetries, request, hist>>
  /\ UNCHANGED clientVars

\* --------------------------------------------------------------- TalonClient

\* The event types the caller subscribes to and the edge sends.
EventTypes == {"a", "b"}

\* The event types the client reserves for the transport's lifecycle.
ReservedTypes == {"_state_change", "_error"}

AllTypes == EventTypes \cup ReservedTypes

\* A member of a handler set: the caller's handler fn itself (once = 0), or the
\* wrapper the k-th once() call made around fn (once = k).
Direct(h) == [fn |-> h, once |-> 0]
Wrapper(h, k) == [fn |-> h, once |-> k]

\* The client's fields as one record; calls lists the handler invocations of
\* this macrotask, thrown tells that the last invocation threw.
ClientCur ==
  [eventHandlers |-> eventHandlers, invoked |-> invoked,
   calls |-> <<>>, thrown |-> FALSE, escaped |-> FALSE]

\* on(eventType, handler): the set for the type is created when absent (an
\* absent set is the empty sequence) and the handler added to it.
on(handlers, eventType, handler) ==
  [handlers EXCEPT ![eventType] = SetAdd(@, handler)]

\* The closure on() returns: delete the handler from the type's set; a set
\* left empty is deleted from the map.
unsubscribe(handlers, eventType, handler) ==
  [handlers EXCEPT ![eventType] = SelectSeq(@, LAMBDA e : e # handler)]

\* off that deletes only the handlers registered with on().
off_keepsWrappers(handlers, eventType) ==
  [handlers EXCEPT ![eventType] = SelectSeq(@, LAMBDA e : e.once # 0)]

\* off(eventType): the type's set is deleted from the map.
off(handlers, eventType) == [handlers EXCEPT ![eventType] = <<>>]

\* One call of a member of the set with the payload.  The caller's handler
\* is called directly; the wrapper of once() runs `handler(data); unsubscribe()`,
\* so that a handler that throws leaves the wrapper before unsubscribe().
invoke(c, eventType, e, data) ==
  LET c1 == [c EXCEPT !.calls = Append(@, [entry |-> e, arg |-> data]),
                      !.invoked = IF e.once = 0 THEN @
                                  ELSE [@ EXCEPT ![e.once] = @ + 1]]
  IN IF Throws(e.fn) THEN [c1 EXCEPT !.thrown = TRUE]
     ELSE IF e.once = 0 THEN c1
     ELSE [c1 EXCEPT !.eventHandlers = unsubscribe(@, eventType, e)]

\* handlers.forEach(handler => ...) over the type's set: every member that is
\* still in the set when its turn comes is called, inside a try/catch when
\* `guarded`.
RECURSIVE dispatch(_, _, _, _, _)
dispatch(c, eventType, entries, data, guarded) ==
  IF entries = <<>> THEN c
  ELSE LET e == Head(entries)
           present == \E i \in 1..Len(c.eventHandlers[eventType]) :
                         c.eventHandlers[eventType][i] = e
           c1 == IF present THEN invoke(c, eventType, e, data) ELSE c
       IN IF c1.thrown /\ ~guarded
            THEN [c1 EXCEPT !.escaped = TRUE]
            ELSE dispatch([c1 EXCEPT !.thrown = FALSE], eventType, Tail(entries),
                          data, guarded)

\* handleMessage without the try/catch around each handler call.
handleMessage_uncaught(c, message) ==
  dispatch(c, message.type, c.eventHandlers[message.type], message.data, FALSE)

\* handleMessage that looks no type up: the handlers of every caller type are called.
handleMessage_anyType(c, message) ==
  LET c1 == dispatch(c, "a", c.eventHandlers["a"], message.data, TRUE)
  IN dispatch(c1, "b", c1.eventHandlers["b"], message.data, TRUE)

\* handleMessage(message): every handler of the message's type is called with
\* message.data, each inside its own try/catch.
handleMessage(c, message) ==
  dispatch(c, message.type, c.eventHandlers[message.type], message.data, TRUE)

\* handleStateChange(state): every handler of `_state_change` is called with
\* {state}; the calls are not inside a try/catch.
handleStateChange(c, state) ==
  dispatch(c, "_state_change", c.eventHandlers["_state_change"], state, FALSE)

\* handleError(error): every handler of `_error` is called with {error}; the
\* calls are not inside a try/catch.
handleError(c, error) ==
  dispatch(c, "_error", c.eventHandlers["_error"], error, FALSE)

\* The closures of the handlers registered with on() under the type, when the
\* caller keeps them.
Closures(handlers, eventType) ==
  IF keepsClosures
    THEN {<<eventType, handlers[eventType][i].fn>> :
            i \in {j \in 1..Len(handlers[eventType]) : handlers[eventType][j].once = 0}}
    ELSE {}

\* cleanup(): the three transport subscriptions are cancelled and the map cleared.
cleanup(handlers) == [eventType \in AllTypes |-> <<>>]

transportVars == <<_state, ws, autoReconnect, maxReconnectAttempts, reconnectAttempts,
                   reconnectTimeout, orphans, messageQueue, messageHandlers, stateHandlers,
          errorHandlers,
                   socks, ctorThrows, nSent, retry, maxRetries, request, hist>>

ClientOut(op, arg, c) ==
  [NoOut EXCEPT !.op = op, !.arg = arg, !.notes = c.calls, !.escaped = c.escaped]

\* The caller calls client.on(eventType, h).
ClientOn(eventType, h) ==
  /\ kind = "client"
  /\ eventHandlers' = on(eventHandlers, eventType, Direct(h))
  /\ cleared' = cleared \ {eventType}
  /\ out' = ClientOut("on", [type |-> eventType, data |-> 0], ClientCur)
  /\ UNCHANGED <<kind, keepsClosures, subscribed, nWrappers, nDelivered, invoked, stale>>
  /\ UNCHANGED transportVars

\* The caller calls client.once(eventType, h).
ClientOnce(eventType, h) ==
  /\ kind = "client"
  /\ nWrappers < MaxWrappers
  /\ nWrappers' = nWrappers + 1
  /\ eventHandlers' = on(eventHandlers, eventType, Wrapper(h, nWrappers + 1))
  /\ cleared' = cleared \ {eventType}
  /\ out' = ClientOut("once", [type |-> eventType, data |-> 0], ClientCur)
  /\ UNCHANGED <<kind, keepsClosures, subscribed, nDelivered, invoked, stale>>
  /\ UNCHANGED transportVars

\* The caller calls client.off(eventType).
ClientOff(eventType) ==
  /\ kind = "client"
  /\ eventHandlers' = off(eventHandlers, eventType)
  /\ cleared' = cleared \cup {eventType}
  /\ stale' = stale \cup Closures(eventHandlers, eventType)
  /\ out' = ClientOut("off", [type |-> eventType, data |-> 0], ClientCur)
  /\ UNCHANGED <<kind, keepsClosures, subscribed, nWrappers, nDelivered, invoked>>
  /\ UNCHANGED transportVars

\* The caller calls the closure that on() or once() returned for the i-th
\* member of the type's set.
ClientUnsubscribe(eventType, i) ==
  /\ kind = "client"
  /\ i \in 1..Len(eventHandlers[eventType])
  /\ eventHandlers' = unsubscribe(eventHandlers, eventType, eventHandlers[eventType][i])
  /\ stale' = IF keepsClosures /\ eventHandlers[eventType][i].once = 0
                THEN stale \cup {<<eventType, eventHandlers[eventType][i].fn>>}
                ELSE stale
  /\ out' = ClientOut("unsubscribe", [type |-> eventType, data |-> 0], ClientCur)
  /\ UNCHANGED <<kind, keepsClosures, subscribed, nWrappers, nDelivered, invoked, cleared>>
  /\ UNCHANGED transportVars

\* The caller calls a closure on(eventType, h) returned whose registration has
\* been removed since (by the closure itself, by off() or by cleanup()).  The
\* closure of a once() wrapper is left out: no later set holds its wrapper.
ClientUnsubscribeStale(eventType, h) ==
  /\ kind = "client"
  /\ <<eventType, h>> \in stale
  /\ eventHandlers' = unsubscribe(eventHandlers, eventType, Direct(h))
  /\ out' = ClientOut("staleUnsubscribe", [type |-> eventType, data |-> h], ClientCur)
  /\ UNCHANGED <<kind, keepsClosures, subscribed, nWrappers, nDelivered, invoked, cleared, stale>>
  /\ UNCHANGED transportVars

\* The transport delivers an inbound message of the type to the client's
\* handleMessage; the payload of the n-th message is n.
Deliver(eventType) ==
  /\ kind = "client"
  /\ subscribed
  /\ nDelivered < MaxDeliveries
  /\ nDelivered' = nDelivered + 1
  /\ LET message == [type |-> eventType, data |-> nDelivered + 1]
         c == handleMessage(ClientCur, message)
     IN /\ eventHandlers' = c.eventHandlers
        /\ invoked' = c.invoked
        /\ out' = ClientOut("deliver", message, c)
  /\ UNCHANGED <<kind, keepsClosures, subscribed, nWrappers, cleared, stale>>
  /\ UNCHANGED transportVars

\* The transport's setState() calls the client's handleStateChange; the
\* payload of the n-th report is n.
StateChangeReported ==
  /\ kind = "client"
  /\ subscribed
  /\ nDelivered < MaxDeliveries
  /\ nDelivered' = nDelivered + 1
  /\ LET c == handleStateChange(ClientCur, nDelivered + 1)
     IN /\ eventHandlers' = c.eventHandlers
        /\ invoked' = c.invoked
        /\ out' = ClientOut("stateChange",
                            [type |-> "_state_change", data |-> nDelivered + 1], c)
  /\ UNCHANGED <<kind, keepsClosures, subscribed, nWrappers, cleared, stale>>
  /\ UNCHANGED transportVars

\* The transport's emitError() calls the client's handleError.
ErrorReported ==
  /\ kind = "client"
  /\ subscribed
  /\ nDelivered < MaxDeliveries
  /\ nDelivered' = nDelivered + 1
  /\ LET c == handleError(ClientCur, nDelivered + 1)
     IN /\ eventHandlers' = c.eventHandlers
        /\ invoked' = c.invoked
        /\ out' = ClientOut("error", [type |-> "_error", data |-> nDelivered + 1], c)
  /\ UNCHANGED <<kind, keepsClosures, subscribed, nWrappers, cleared, stale>>
  /\ UNCHANGED transportVars

\* The caller calls client.disconnect(): transport.disconnect(), whose
\* setState('disconnected') calls handleStateChange when the transport was in
\* another state (`changes`; payload 0 is {state: 'disconnected'}), then
\* cleanup().
ClientDisconnect(changes) ==
  /\ kind = "client"
  /\ subscribed
  /\ subscribed' = FALSE
  /\ LET c == IF changes THEN handleStateChange(ClientCur, 0) ELSE ClientCur
     IN /\ eventHandlers' = cleanup(c.eventHandlers)
        /\ invoked' = c.invoked
        /\ out' = ClientOut("disconnect",
                            [type |-> IF changes THEN "_state_change" ELSE "", data |-> 0], c)
  /\ stale' = stale \cup UNION {Closures(eventHandlers, eventType) : eventType \in AllTypes}
  /\ UNCHANGED <<kind, keepsClosures, nWrappers, nDelivered, cleared>>
  /\ UNCHANGED transportVars

\* ------------------------------------------------------------ specifications

NoRequest == [pc |-> "idle", message |-> [id |-> 0, encodable |-> TRUE], attempt |-> 0,
              requests |-> 0, attempts |-> 0]

\* A WebSocketTransport after construction with the given autoReconnect
\* options, and after its two subscribers registered for state changes and
\* errors, the throwing one first.
InitWs(autoOptions) ==
  /\ kind = "ws"
  /\ _state = "disconnected"
  /\ ws = 0
  /\ autoReconnect \in autoOptions
  /\ maxReconnectAttempts \in {0, MaxLimit}
  /\ reconnectAttempts = 0
  /\ reconnectTimeout = "null"
  /\ orphans = 0
  /\ messageQueue = <<>>
  /\ messageHandlers = <<2, 1>>
  /\ stateHandlers = <<2, 1>>
  /\ errorHandlers = <<2, 1>>
  /\ socks = <<>>
  /\ ctorThrows \in BOOLEAN
  /\ nSent = 0
  /\ retry = FALSE
  /\ maxRetries = 0
  /\ request = NoRequest
  /\ hist = [userDisc |-> FALSE, everDisc |-> FALSE, autoAttempts |-> 0]
  /\ out = NoOut
  /\ eventHandlers = [eventType \in AllTypes |-> <<>>]
  /\ subscribed = FALSE
  /\ nWrappers = 0
  /\ nDelivered = 0
  /\ invoked = [k \in 1..MaxWrappers |-> 0]
  /\ cleared = {}
  /\ keepsClosures = FALSE
  /\ stale = {}

\* A WebhookTransport after construction.
InitWh ==
  /\ kind = "wh"
  /\ _state = "disconnected"
  /\ ws = 0
  /\ autoReconnect = FALSE
  /\ maxReconnectAttempts = 0
  /\ reconnectAttempts = 0
  /\ reconnectTimeout = "null"
  /\ orphans = 0
  /\ messageQueue = <<>>
  /\ messageHandlers = <<>>
  /\ stateHandlers = <<>>
  /\ errorHandlers = <<>>
  /\ socks = <<>>
  /\ ctorThrows = FALSE
  /\ nSent = 0
  /\ retry \in BOOLEAN
  /\ maxRetries \in 0..MaxRetries
  /\ request = NoRequest
  /\ hist = [userDisc |-> FALSE, everDisc |-> FALSE, autoAttempts |-> 0]
  /\ out = [NoOut EXCEPT !.arg = ""]
  /\ eventHandlers = [eventType \in AllTypes |-> <<>>]
  /\ subscribed = FALSE
  /\ nWrappers = 0
  /\ nDelivered = 0
  /\ invoked = [k \in 1..MaxWrappers |-> 0]
  /\ cleared = {}
  /\ keepsClosures = FALSE
  /\ stale = {}

\* The connection lifecycle of either transport.  send() of the socket
\* transport reads the state and the socket but changes only the queue, so
\* the lifecycle is explored without it; SpecQueue adds it.
Init == InitWs(BOOLEAN) \/ InitWh

WsLifecycle ==
  \/ WsConnect
  \/ WsDisconnect
  \/ \E named \in BOOLEAN : ReconnectTimerFires(named)
  \/ \E s \in Slots : ConnectionTimeoutFires(s)
  \/ \E s \in Slots : SocketOpens(s)
  \/ \E s \in Slots, failed \in BOOLEAN : SocketCloses(s, failed)

Webhook ==
  \/ WhConnect
  \/ WhDisconnect
  \/ \E encodable \in BOOLEAN : WhSend(encodable)
  \/ \E outcome \in {"ok", "status", "timeout", "network"} : WhFetchSettles(outcome)
  \/ WhBackoffElapsed
  \/ \E h \in Observers : OnStateChange(h)
  \/ \E h \in Observers : OnError(h)

Next == WsLifecycle \/ Webhook

Spec == Init /\ [][Next]_vars

\* The socket transport with a caller that sends up to MaxMsgs messages,
\* over the time in which no reconnect timer fires yet: a scheduled reconnect
\* stays pending.
InitQueue == InitWs(BOOLEAN)

NextQueue ==
  \/ WsConnect
  \/ WsDisconnect
  \/ \E encodable \in BOOLEAN : WsSend(encodable)
  \/ \E s \in Slots : ConnectionTimeoutFires(s)
  \/ \E s \in Slots : SocketOpens(s)
  \/ \E s \in Slots, failed \in BOOLEAN : SocketCloses(s, failed)

SpecQueue == InitQueue /\ [][NextQueue]_vars

\* The socket transport receiving frames from the edge.
InitInbound == InitWs({FALSE})

NextInbound ==
  \/ WsConnect
  \/ WsDisconnect
  \/ \E s \in Slots : ConnectionTimeoutFires(s)
  \/ \E s \in Slots : SocketOpens(s)
  \/ \E s \in Slots, failed \in BOOLEAN : SocketCloses(s, failed)
  \/ \E s \in Slots, data \in InboundFrames : FrameArrives(s, data)

SpecInbound == InitInbound /\ [][NextInbound]_vars

\* A TalonClient after construction over a transport that delivers the
\* edge's messages to it.
NewClient(keeps) ==
  /\ kind = "client"
  /\ _state = "disconnected"
  /\ ws = 0
  /\ autoReconnect = FALSE
  /\ maxReconnectAttempts = 0
  /\ reconnectAttempts = 0
  /\ reconnectTimeout = "null"
  /\ orphans = 0
  /\ messageQueue = <<>>
  /\ messageHandlers = <<>>
  /\ stateHandlers = <<>>
  /\ errorHandlers = <<>>
  /\ socks = <<>>
  /\ ctorThrows = FALSE
  /\ nSent = 0
  /\ retry = FALSE
  /\ maxRetries = 0
  /\ request = NoRequest
  /\ hist = [userDisc |-> FALSE, everDisc |-> FALSE, autoAttempts |-> 0]
  /\ out = [NoOut EXCEPT !.arg = [type |-> "", data |-> 0]]
  /\ eventHandlers = [eventType \in AllTypes |-> <<>>]
  /\ subscribed = TRUE
  /\ nWrappers = 0
  /\ nDelivered = 0
  /\ invoked = [k \in 1..MaxWrappers |-> 0]
  /\ cleared = {}
  /\ keepsClosures = keeps
  /\ stale = {}

\* The caller drops the closure of a registration once the registration is removed.
InitClient == NewClient(FALSE)

NextClient ==
  \/ \E eventType \in EventTypes, h \in Observers : ClientOn(eventType, h)
  \/ \E eventType \in EventTypes, h \in Observers : ClientOnce(eventType, h)
  \/ \E eventType \in EventTypes : ClientOff(eventType)
  \/ \E eventType \in EventTypes, i \in 1..(2 + MaxWrappers) : ClientUnsubscribe(eventType, i)
  \/ \E eventType \in EventTypes : Deliver(eventType)
  \/ \E changes \in BOOLEAN : ClientDisconnect(changes)

SpecClient == InitClient /\ [][NextClient]_vars

\* The promise of a connect() call of the caller is unsettled.
CallerPending == kind = "ws" /\ \E s \in Slots : socks[s].waiter = "caller"

\* The socket transport's connection lifecycle with a caller that awaits the
\* result of one connect() call before it calls connect() again, on a runtime
\* that may close a socket that never opened with or without an error event.
\* Timers that are set fire, and a socket that is connecting or closing
\* sees its open or close event.
InitLive == InitWs(BOOLEAN)

NextLive ==
  \/ ~CallerPending /\ WsConnect
  \/ WsDisconnect
  \/ \E named \in BOOLEAN : ReconnectTimerFires(named)
  \/ \E s \in Slots : ConnectionTimeoutFires(s)
  \/ \E s \in Slots : SocketOpens(s)
  \/ \E s \in Slots, failed \in BOOLEAN : SocketCloses(s, failed)
  \/ \E s \in Slots : SocketDrops(s)

FairLive ==
  /\ WF_vars(\E named \in BOOLEAN : ReconnectTimerFires(named))
  /\ \A s \in 1..MaxSockets :
       /\ WF_vars(s \in Slots /\ ConnectionTimeoutFires(s))
       /\ WF_vars(/\ s \in Slots
                  /\ socks[s].readyState \in {"connecting", "closing"}
                  /\ \/ SocketOpens(s)
                     \/ \E failed \in BOOLEAN : SocketCloses(s, failed)
                     \/ SocketDrops(s))

SpecLive == InitLive /\ [][NextLive]_vars /\ FairLive

\* A TalonClient whose caller keeps every closure on() returned and may call
\* it at any later time.
InitClosures == NewClient(TRUE)

NextClosures ==
  \/ NextClient
  \/ \E eventType \in EventTypes, h \in Observers : ClientUnsubscribeStale(eventType, h)

SpecClosures == InitClosures /\ [][NextClosures]_vars

\* A TalonClient whose caller subscribes to the reserved lifecycle events while
\* its transport reports state changes and errors.
NextEvents ==
  \/ \E eventType \in ReservedTypes, h \in Observers : ClientOn(eventType, h)
  \/ \E eventType \in ReservedTypes, h \in Observers : ClientOnce(eventType, h)
  \/ \E eventType \in ReservedTypes : ClientOff(eventType)
  \/ \E eventType \in ReservedTypes, i \in 1..(2 + MaxWrappers) :
        ClientUnsubscribe(eventType, i)
  \/ StateChangeReported
  \/ ErrorReported
  \/ \E changes \in BOOLEAN : ClientDisconnect(changes)

SpecEvents == InitClient /\ [][NextEvents]_vars

\* ------------------------------------------------------------------ claims

\* An automatic reconnect attempt: the reconnect timer's callback went on to
\* open a connection (its connect() was not the no-op).
AutoAttempt(o) == o.op = "reconnectTimer" /\ o.result \in {"pending", "rejected"}

\* C1.  Socket transport: after an explicit disconnect() the state is
\* `disconnected` and stays so until the caller calls connect() again, and no
\* reconnect timer starts a connection attempt in between (hist.userDisc holds
\* from disconnect() to the caller's next connect()).
C1_NoReconnectAfterDisconnect ==
  [][/\ hist'.userDisc => _state' = "disconnected"
     /\ hist.userDisc => ~AutoAttempt(out')]_vars

\* C8.  Socket transport: every reconnect is scheduled with
\* delay = reconnectDelay * 2^n, n being the number of automatic reconnect
\* attempts made since the last successful connection.
C8_BackoffDelay ==
  kind = "ws" =>
    \A i \in 1..Len(out.sched) :
      out.sched[i].delay = ReconnectDelay * 2^(out.sched[i].after)

\* C9.  Socket transport: whenever the state is `connected` the reconnect
\* attempt counter is 0.
C9_CounterZeroWhenConnected ==
  (kind = "ws" /\ _state = "connected") => reconnectAttempts = 0

\* The calls a macrotask made to the state observers `handlers`, given the
\* state before and after it: the calls split into rounds, one round per
\* change of state, a round calling every observer once, in registration
\* order, with the state changed to; no round repeats the state before it,
\* and the last round carries the final state.
NotifiedPerChange(before, after, handlers, calls) ==
  LET n == Len(handlers)
  IN IF n = 0 THEN calls = <<>>
     ELSE /\ Len(calls) % n = 0
          /\ LET rounds == Len(calls) \div n
                 to(j) == calls[(j - 1) * n + 1].arg
             IN /\ \A j \in 1..rounds, i \in 1..n :
                     calls[(j - 1) * n + i] = [handler |-> handlers[i], arg |-> to(j)]
                /\ rounds = 0 => after = before
                /\ rounds > 0 => to(1) # before /\ to(rounds) = after
                /\ \A j \in 1..(rounds - 1) : to(j) # to(j + 1)

\* C10.  Both transports: every change of state calls each registered
\* state-change observer exactly once with the new state, in registration
\* order; setting the state to its current value calls none; a throwing
\* observer does not stop the others and its exception reaches no caller.
C10_StateObservers ==
  [][/\ NotifiedPerChange(_state, _state', stateHandlers, out'.notes)
     /\ ~out'.escaped]_vars

\* C10's case: the socket transport changed state and called the throwing
\* observer and then the other one.
C10_Witness ==
  /\ kind = "ws"
  /\ out.notes = <<[handler |-> 2, arg |-> "reconnecting"],
                  [handler |-> 1, arg |-> "reconnecting"]>>

\* C2.  Socket transport: send(m) in a state other than `connected` resolves,
\* calls no error observer, writes nothing to the wire and appends m at the
\* tail of the queue; the earlier entries and the state stay as they were.
C2_SendQueues ==
  [][(out'.op = "send" /\ _state # "connected") =>
       /\ out'.result = "resolved"
       /\ out'.errors = <<>> /\ out'.raised = <<>>
       /\ out'.written = <<>> /\ out'.discarded = <<>>
       /\ Len(messageQueue') = Len(messageQueue) + 1
       /\ SubSeq(messageQueue', 1, Len(messageQueue)) = messageQueue
       /\ messageQueue'[Len(messageQueue')].id = out'.arg
       /\ _state' = _state]_vars

\* C2's case: the second message was sent while reconnecting and queued
\* behind the first.
C2_Witness ==
  /\ out.op = "send" /\ out.arg = 2
  /\ _state = "reconnecting"
  /\ Len(messageQueue) = 2 /\ messageQueue[1].id = 1 /\ messageQueue[2].id = 2

\* The text frames of the messages of queue q that JSON can encode, in order.
Frames(q) ==
  LET e == SelectSeq(q, LAMBDA m : m.encodable)
  IN [i \in 1..Len(e) |-> <<"json", e[i].id>>]

\* C3.  Socket transport: when the transport enters `connected`, every queued
\* message is written to the wire exactly once, in send order, and the queue
\* is empty afterwards (an entry JSON cannot encode is the per-entry failure
\* the flush drops, and is not required on the wire).
C3_FlushOnConnected ==
  [][(out'.op = "open" /\ _state # "connected" /\ _state' = "connected") =>
       /\ out'.written = Frames(messageQueue)
       /\ messageQueue' = <<>>]_vars

\* The number of calls in `calls` made to set member e with payload data.
CallsTo(calls, e, data) ==
  Cardinality({i \in 1..Len(calls) : calls[i] = [entry |-> e, arg |-> data]})

\* C4.  Client once(type, h): h is invoked exactly once, with the payload of
\* the first message of the type received after the subscription: the
\* message delivered while the subscription is in place calls h once and ends
\* the subscription, and h is never called a second time.
C4_OnceExactlyOnce ==
  [][/\ \A k \in DOMAIN invoked : invoked'[k] <= 1
     /\ out'.op = "deliver" =>
          LET hs == eventHandlers[out'.arg.type]
          IN \A i \in 1..Len(hs) :
               hs[i].once # 0 =>
                 /\ CallsTo(out'.notes, hs[i], out'.arg.data) = 1
                 /\ \A j \in 1..Len(eventHandlers'[out'.arg.type]) :
                      eventHandlers'[out'.arg.type][j] # hs[i]]_vars

\* C5.  Client off(type): a message of the type received after off(type), with
\* no subscription to the type made since, invokes no handler, and off(type)
\* leaves the handlers of every other type as they were.
C5_OffRemoves ==
  [][/\ out'.op = "off" =>
          /\ eventHandlers'[out'.arg.type] = <<>>
          /\ \A t \in EventTypes \ {out'.arg.type} : eventHandlers'[t] = eventHandlers[t]
     /\ (out'.op = "deliver" /\ out'.arg.type \in cleared) =>
          /\ out'.notes = <<>>
          /\ invoked' = invoked]_vars

\* C5's case: a message of type "a" arrived after off("a") and called nobody,
\* while type "b" keeps its two handlers.
C5_Witness ==
  /\ out.op = "deliver" /\ out.arg.type = "a"
  /\ "a" \in cleared
  /\ out.notes = <<>>
  /\ Len(eventHandlers["b"]) = 2

\* C6.  Client dispatch: every handler registered for the message's type is
\* invoked exactly once with the payload, in registration order, whether or
\* not another handler threw, and no exception leaves the dispatch call.
C6_ThrowContained ==
  [][out'.op = "deliver" =>
       LET hs == eventHandlers[out'.arg.type]
       IN /\ out'.notes = [i \in 1..Len(hs) |-> [entry |-> hs[i], arg |-> out'.arg.data]]
          /\ ~out'.escaped]_vars

\* C6's case: the first handler called threw and the second was still called.
C6_Witness ==
  /\ out.op = "deliver"
  /\ Len(out.notes) = 2
  /\ Throws(out.notes[1].entry.fn)
  /\ ~Throws(out.notes[2].entry.fn)

\* The attempts a send() call may make: 1 + maxRetries with retry, else 1.
Budget == IF retry THEN maxRetries + 1 ELSE 1

\* This step settles a send() call that was made while connected.
C7_Settled ==
  /\ out'.op \in {"send", "fetchSettles", "backoffElapsed"}
  /\ out'.op = "send" => _state = "connected"
  /\ out'.result \in {"resolved", "rejected"}

\* The parts of C7 that do not depend on the message: at most Budget requests;
\* a 2xx response to attempt k resolves the call with exactly k requests
\* issued; any other outcome is retried while attempts remain, the retry
\* issuing one more request, and otherwise rejects the call with Budget
\* requests issued.
C7_Attempts ==
  /\ request'.requests <= Budget
  /\ (out'.op = "fetchSettles" /\ out'.arg = "ok") =>
       /\ out'.result = "resolved"
       /\ request'.pc = "idle"
       /\ request'.requests = request.attempt + 1
  /\ (out'.op = "fetchSettles" /\ out'.arg # "ok") =>
       IF request.attempt + 1 < Budget
         THEN request'.pc = "backoff" /\ out'.result = "none"
         ELSE out'.result = "rejected" /\ request'.requests = Budget
  /\ (out'.op = "backoffElapsed" /\ request.requests > 0) =>
       /\ request'.pc = "fetch"
       /\ request'.requests = request.requests + 1

\* C7 as stated.  Fire-and-forget send() while connected issues at most
\* 1 + R requests with retry and exactly one without, stops at the first 2xx
\* response, issues k requests when attempt k is the first to succeed, and
\* retries a non-2xx or timed-out attempt while budget remains.
C7_AsStated ==
  [][kind = "wh" =>
       /\ C7_Attempts
       /\ (C7_Settled /\ ~retry) => request'.requests = 1]_vars

\* C7, amended.  As C7, with "exactly one request without retry" holding for
\* the messages JSON can encode; for a message it cannot encode every attempt
\* fails before a request is issued: the call rejects with no request made.
C7_RequestsPerSend ==
  [][kind = "wh" =>
       /\ C7_Attempts
       /\ (C7_Settled /\ ~retry /\ request'.message.encodable) => request'.requests = 1
       /\ (C7_Settled /\ ~request'.message.encodable) =>
            out'.result = "rejected" /\ request'.requests = 0]_vars

\* C7's case: with retry on, the third attempt was the first to get a 2xx
\* response, after three requests.
C7_Witness ==
  /\ out.op = "fetchSettles" /\ out.arg = "ok"
  /\ retry
  /\ request.requests = 3

\* C11.  Socket transport: connect() called while `connecting` or `connected`
\* resolves at once, opens no socket, leaves the state, the socket and the
\* attempt counter as they were and calls no observer.
C11_ConnectNoOp ==
  [][(kind = "ws" /\ out'.op = "connect" /\ _state \in {"connecting", "connected"}) =>
       /\ out'.result = "resolved"
       /\ socks' = socks /\ ws' = ws
       /\ _state' = _state
       /\ reconnectAttempts' = reconnectAttempts
       /\ out'.notes = <<>> /\ out'.errors = <<>>]_vars

\* C11's case: connect() was called while a handshake was in progress and
\* resolved without opening a second socket.
C11_Witness ==
  /\ kind = "ws"
  /\ out.op = "connect" /\ out.result = "resolved"
  /\ _state = "connecting"
  /\ Len(socks) = 1

\* C12.  Socket transport: once disconnect() has been called the state never
\* becomes `reconnecting` again, no reconnect is scheduled, and every later
\* closure of a socket leaves the transport `disconnected`.
C12_DisconnectDisablesReconnect ==
  [][hist'.everDisc =>
       /\ _state' # "reconnecting"
       /\ out'.sched = <<>>
       /\ out'.op = "close" => _state' = "disconnected"]_vars

\* C12's case: after a disconnect() the caller connected again, and the
\* connection then closed without an error event: the closure moved the
\* transport to `disconnected`.
C12_Witness ==
  /\ kind = "ws"
  /\ hist.everDisc /\ ~hist.userDisc
  /\ out.op = "close" /\ out.errors = <<>>
  /\ out.notes # <<>>
  /\ _state = "disconnected"

\* The macrotask whose outcome is o rejected the result of a connect() or
\* send() call of the caller.
RejectedToCaller(o) ==
  \/ o.op \in {"connect", "send", "fetchSettles", "backoffElapsed"} /\ o.result = "rejected"
  \/ \E i \in 1..Len(o.settled) : o.settled[i] = [waiter |-> "caller", how |-> "rejected"]

\* C13.  Both transports: a macrotask that rejects the result of a caller's
\* connect() or send() has also called every registered error observer.
C13_DualDelivery ==
  [][RejectedToCaller(out') =>
       \A i \in 1..Len(errorHandlers) :
         \E j \in 1..Len(out'.errors) : out'.errors[j].handler = errorHandlers[i]]_vars

\* C14.  Socket transport: a malformed inbound frame (not JSON, or JSON that
\* is no envelope) calls every error observer with a parse error and no
\* message observer; a well-formed frame calls every message observer and no
\* error observer.
C14_MalformedDropped ==
  [][out'.op = "message" =>
       IF out'.frame = "envelope"
         THEN /\ Len(out'.delivered) = Len(messageHandlers)
              /\ \A i \in 1..Len(messageHandlers) :
                   out'.delivered[i].handler = messageHandlers[i]
              /\ out'.errors = <<>>
         ELSE /\ out'.delivered = <<>>
              /\ out'.errors = [i \in 1..Len(errorHandlers) |->
                                  [handler |-> errorHandlers[i], arg |-> "parse"]]]_vars

\* The macrotask whose outcome is o rejected the result of a connect() call
\* of the caller.
RejectedConnect(o) ==
  \/ o.op = "connect" /\ o.result = "rejected"
  \/ \E i \in 1..Len(o.settled) : o.settled[i] = [waiter |-> "caller", how |-> "rejected"]

\* C16.  Socket transport: when a connect() call of the caller is rejected the
\* transport is in state `error` or `disconnected`, the states in which the
\* caller's next connect() starts a new attempt.
C16_FailedConnectState ==
  [][(kind = "ws" /\ RejectedConnect(out')) =>
       _state' \in {"error", "disconnected"}]_vars

\* C17.  Socket transport with a reconnect limit N > 0: the attempt counter
\* and the number of automatic attempts since the last successful connection
\* never exceed N; a failure that finds the limit used up leaves the
\* transport `disconnected` with no reconnect timer pending; without
\* auto-reconnect a closure leaves it `disconnected` and schedules nothing.
C17_ReconnectLimit ==
  [][kind = "ws" =>
       /\ maxReconnectAttempts > 0 =>
            /\ reconnectAttempts' <= maxReconnectAttempts
            /\ hist'.autoAttempts <= maxReconnectAttempts
            /\ (/\ out'.op \in {"close", "reconnectTimer", "connectionTimeout"}
                /\ autoReconnect'
                /\ _state' = "disconnected") =>
                 reconnectTimeout' # "pending" /\ orphans' = 0
       /\ (out'.op = "close" /\ ~autoReconnect) =>
            _state' = "disconnected" /\ out'.sched = <<>>]_vars

\* C18.  Client lifecycle events: when the transport reports a state change or
\* an error, every handler registered for the reserved event is invoked
\* exactly once, in registration order, with the report's payload, whether or
\* not an earlier handler of the event threw.
C18_LifecycleHandlers ==
  [][out'.op \in {"stateChange", "error"} =>
       LET hs == eventHandlers[out'.arg.type]
       IN /\ Len(out'.notes) = Len(hs)
          /\ \A i \in 1..Len(hs) :
               out'.notes[i] = [entry |-> hs[i], arg |-> out'.arg.data]]_vars

\* C19.  Client dispatch: an inbound message invokes the handlers registered
\* under its type and no others, each once, in registration order, with the
\* message's data; the registrations of the other types are left as they
\* were; a message whose type has no handler invokes nothing, changes nothing
\* and raises no error.
C19_ExactDispatch ==
  [][out'.op = "deliver" =>
       LET type == out'.arg.type
           hs == eventHandlers[type]
       IN /\ Len(out'.notes) = Len(hs)
          /\ \A i \in 1..Len(out'.notes) :
               /\ i <= Len(hs) => out'.notes[i].entry = hs[i]
               /\ out'.notes[i].arg = out'.arg.data
          /\ \A t \in AllTypes \ {type} : eventHandlers'[t] = eventHandlers[t]
          /\ hs = <<>> => /\ out'.notes = <<>>
                          /\ ~out'.escaped
                          /\ eventHandlers' = eventHandlers]_vars

\* C19's case: a message of type "a" called the two handlers registered under
\* "a" in order while "b" holds only a once() handler, which was not called.
C19_Witness ==
  /\ out.op = "deliver"
  /\ out.arg.type = "a"
  /\ Len(out.notes) = 2
  /\ out.notes[1].entry = Direct(2)
  /\ out.notes[2].entry = Direct(1)
  /\ Len(eventHandlers["b"]) = 1
  /\ eventHandlers["b"][1].once = 1
  /\ invoked[1] = 0

\* C20.  Client on(type, h): calling the closure on() returned removes one
\* member, the registration that made it, from the type's set and leaves
\* every other registration of every type alone; calling a closure whose
\* registration is gone (it was called before, or off(type) or cleanup()
\* removed the registration) changes nothing, whatever was registered since.
C20_UnsubscribeExact ==
  [][/\ out'.op = "unsubscribe" =>
          \E i \in 1..Len(eventHandlers[out'.arg.type]) :
            eventHandlers' = [eventHandlers EXCEPT ![out'.arg.type] = Remove(@, i)]
     /\ out'.op = "staleUnsubscribe" => eventHandlers' = eventHandlers]_vars

\* C15.  Socket transport: the promise of every connect() call of the caller
\* is eventually settled, whatever the socket, the timers and the caller do
\* in the meantime.
C15_ConnectSettles == CallerPending ~> ~CallerPending

\* The transitions the documented state machine allows to macrotask `op`.
Documented(from, to, op) ==
  \/ from \in {"disconnected", "error", "reconnecting"} /\ to = "connecting"
       /\ op \in {"connect", "reconnectTimer"}
  \/ from = "connecting" /\ to = "connected" /\ op = "open"
  \/ from = "connecting" /\ to = "error" /\ op \in {"connect", "reconnectTimer"}
  \/ from = "connected" /\ to = "reconnecting" /\ op = "close"
  \/ from \in {"connected", "reconnecting"} /\ to = "disconnected" /\ op = "close"
  \/ to = "disconnected" /\ op = "disconnect"

\* C21.  Socket transport: every change of state a macrotask makes (the state
\* observers see each of them) is a transition of the documented relation;
\* `reconnecting` is entered only from `connected`.
C21_TransitionRelation ==
  [][kind = "ws" =>
       LET n == Len(stateHandlers)
           rounds == Len(out'.notes) \div n
           st(j) == IF j = 0 THEN _state ELSE out'.notes[(j - 1) * n + 1].arg
       IN \A j \in 1..rounds : Documented(st(j - 1), st(j), out'.op)]_vars

\* This step is the failure of the last attempt of a send() call's budget: a
\* fetch that settled without a 2xx response, or a message that could not be
\* serialized, in attempt number `attempts - 1`.
C22_LastAttemptFailed ==
  \/ /\ out'.op = "fetchSettles"
     /\ out'.arg # "ok"
     /\ request.attempt + 1 = request.attempts
  \/ /\ (out'.op = "send" /\ _state = "connected") \/ out'.op = "backoffElapsed"
     /\ ~request'.message.encodable
     /\ request'.attempt + 1 = request'.attempts

\* C22.  Fire-and-forget send(): the error observers are called only in the
\* step in which the last attempt of the budget fails, each once, with that
\* attempt's error, and that step ends the call by rejecting it; no other
\* step of a send() call (a success, a failure with attempts left) calls an
\* error observer, and no other step rejects a call that made an attempt.
C22_ErrorsOnceExhausted ==
  [][kind = "wh" =>
       IF C22_LastAttemptFailed
         THEN /\ out'.result = "rejected"
              /\ request'.pc = "idle"
              /\ out'.errors =
                   [i \in 1..Len(errorHandlers) |->
                      [handler |-> errorHandlers[i],
                       arg |-> IF out'.op = "fetchSettles" THEN out'.arg ELSE "stringify"]]
         ELSE /\ out'.errors = <<>>
              /\ out'.result = "rejected" => out'.op = "send" /\ _state # "connected"]_vars

\* C22's case: with two error observers registered, the second attempt of a
\* call, the last of its budget, failed after the first had failed silently,
\* and both observers were called with its error.
C22_Witness ==
  /\ kind = "wh"
  /\ out.op = "fetchSettles"
  /\ out.result = "rejected"
  /\ request.attempt >= 1
  /\ Len(out.errors) = 2
  /\ out.errors[1].arg = out.arg

\* The ids in sequence q.
Ids(q) == {q[i] : i \in 1..Len(q)}

\* C23.  Socket transport: a flush in which the write of a queued entry raises
\* drops that entry (it is not in the queue afterwards), lets no exception
\* out of the open callback, which still resolves connect(), and writes the
\* other entries of the snapshot to the wire in their original order.
C23_FlushBestEffort ==
  [][(kind = "ws" /\ out'.op = "open" /\ out'.raised # <<>>) =>
       LET rest == SelectSeq(messageQueue, LAMBDA m : m.id \notin Ids(out'.raised))
       IN /\ \A i \in 1..Len(messageQueue') : messageQueue'[i].id \notin Ids(out'.raised)
          /\ ~out'.escaped
          /\ \A i \in 1..Len(out'.settled) : out'.settled[i].how = "resolved"
          /\ out'.written = [i \in 1..Len(rest) |-> <<"json", rest[i].id>>]]_vars

\* C24.  Socket transport: no reconnect timer is pending besides the one
\* this.reconnectTimeout names, so that clearing that one leaves none.
C24_SingleReconnectTimer == kind = "ws" => orphans = 0

\* C25.  Socket transport: in state `connected` this.ws is the open socket of
\* the attempt that connected, so that send() writes to the wire.
C25_ConnectedHoldsSocket ==
  (kind = "ws" /\ _state = "connected") => ws # 0 /\ socks[ws].readyState = "open"

\* C26.  Socket transport: the connect timeout that fires belongs to a socket
\* that has neither opened nor seen its error or close event, and it leaves
\* every other socket as it was.
C26_TimeoutOwnSocket ==
  [][(kind = "ws" /\ out'.op = "connectionTimeout") =>
       \A s \in Slots :
         IF socks[s].timeout /\ ~socks'[s].timeout
           THEN ~socks[s].opened /\ socks[s].readyState \in {"connecting", "closing"}
           ELSE socks'[s] = socks[s]]_vars

\* The number of entries of sequence q equal to x.
Count(q, x) == Cardinality({i \in 1..Len(q) : q[i] = x})

\* C27.  Socket transport, message conservation, step by step: a message is
\* in the queue, written or dropped with a raised error after a macrotask
\* exactly as often as it was in the queue before it (once more for the
\* message send() accepts in it), and no message is handed to a socket that
\* discards it; disconnect() leaves the queue as it was.  The messages sent
\* being distinct, each accepted message is then written once, dropped for a
\* raised write, or queued once.
C27_Conservation ==
  [][kind = "ws" =>
       /\ \A id \in 1..nSent' :
            Cardinality({i \in 1..Len(messageQueue') : messageQueue'[i].id = id})
              + Count(out'.written, <<"json", id>>) + Count(out'.raised, id)
            = Cardinality({i \in 1..Len(messageQueue) : messageQueue[i].id = id})
              + (IF out'.op = "send" /\ out'.arg = id THEN 1 ELSE 0)
       /\ out'.discarded = <<>>
       /\ out'.op = "disconnect" => messageQueue' = messageQueue]_vars

\* C28.  Client teardown: client.disconnect() calls every `_state_change`
\* handler with the `disconnected` notification when the transport leaves
\* another state, then leaves every registry empty and the client
\* unsubscribed from its transport; after it no handler of the client is
\* invoked, whenever it was registered.
C28_Teardown ==
  [][/\ out'.op = "disconnect" =>
          LET hs == eventHandlers["_state_change"]
          IN /\ out'.arg.type = "_state_change" =>
                  out'.notes = [i \in 1..Len(hs) |-> [entry |-> hs[i], arg |-> 0]]
             /\ \A t \in AllTypes : eventHandlers'[t] = <<>>
             /\ ~subscribed'
     /\ (kind = "client" /\ ~subscribed) => out'.notes = <<>>]_vars

====
